---- MODULE Spec2Model ----
\* Track library of telegram_music_api.py: the in-memory catalog tracks_storage,
\* its snapshot music/tracks.json, the blob files under music/, the threaded
\* Flask request handlers and the bot's upload handler on the asyncio thread.
EXTENDS Integers, Sequences, FiniteSets, TLC

\* ---------------------------------------------------------------- bounds
NumThreads == 2
MaxRequests == 3
\* the uploads the ingestion specification takes up
MaxIngest == 2
\* the catalogs the sequential specification starts from: entries and plays per entry
MaxTracks == 4
MaxCount == 1
\* the updates the webhook specification puts on the queue
MaxUpdates == 3

\* 50 * 1024 * 1024, the ceiling of handle_audio_upload
SizeLimit == 52428800

Threads == 1 .. NumThreads
Bot == 0
Procs == Threads \cup {Bot}

\* the values str(uuid.uuid4())[:8] can take, and the external references
IdSpace == {"a", "b"}
FileIds == {"f1"}
\* audio.file_size as Telegram declares it (0: absent) and the size of the payload
DeclaredSizes == {0, SizeLimit, SizeLimit + 1}
ActualSizes == {SizeLimit, SizeLimit + 1}

\* ---------------------------------------------------------------- str
\* A str is the sequence of its characters. The characters that occur: letters in
\* both cases, a digit, the three characters the sanitizer lets through beside
\* letters and digits, and some it removes.
UpperCase == {"A", "S", "T", "U"}
LowerCase == {"a", "e", "g", "i", "k", "l", "m", "n", "o", "p", "r", "s", "t", "u", "w"}
Digits == {"3"}
Whitespace == {" ", "\t"}

\* str.isalnum, one character
isalnum(c) == c \in UpperCase \cup LowerCase \cup Digits

\* str.lower
lower_char(c) ==
    CASE c = "A" -> "a"
      [] c = "S" -> "s"
      [] c = "T" -> "t"
      [] c = "U" -> "u"
      [] OTHER -> c

lower(s) == [i \in 1 .. Len(s) |-> lower_char(s[i])]

\* str.strip
RECURSIVE lstrip(_)
lstrip(s) ==
    IF s # << >> /\ Head(s) \in Whitespace THEN lstrip(Tail(s)) ELSE s

RECURSIVE rstrip(_)
rstrip(s) ==
    IF s # << >> /\ s[Len(s)] \in Whitespace
    THEN rstrip(SubSeq(s, 1, Len(s) - 1)) ELSE s

strip(s) == rstrip(lstrip(s))

\* q in s
Contains(q, s) ==
    \E i \in 0 .. Len(s) - Len(q) : SubSeq(s, i + 1, i + Len(q)) = q

\* a or b, on values whose falsy forms (None, "", 0) are modelled alike
OrElse(a, b) == IF a # << >> THEN a ELSE b

\* "".join(c for c in s if c.isalnum() or c in (' ', '-', '_')).strip()
KeepChar(c) == isalnum(c) \/ c \in {" ", "-", "_"}

Sanitize(s) == strip(SelectSeq(s, KeepChar))

UnknownTitle == <<"U", "n", "k", "n", "o", "w", "n", " ", "T", "i", "t", "l", "e">>
UnknownArtist == <<"U", "n", "k", "n", "o", "w", "n", " ", "A", "r", "t", "i", "s", "t">>

\* the tags of an audio message: title, file_name and performer may be absent
\* (the empty str), duration may be absent (0)
Tags(title, file_name, performer, duration, user_id) ==
    [title |-> title, file_name |-> file_name, performer |-> performer,
     duration |-> duration, user_id |-> user_id]

NoTags == Tags(<< >>, << >>, << >>, 0, 0)

\* the message the uploads of the concurrent specification carry
PlainAudio == Tags(<<"S", "o">>, << >>, <<"A", "n">>, 7, 1)

\* the tags the ingestion specification draws from: absent, made only of
\* characters the sanitizer removes, or mixed
Titles == {<< >>, <<"!", "!">>, <<" ", "S", "!", "o", " ">>}
FileNames == {<< >>, <<"s", ".", "m", "p", "3">>}
\* performer and duration: both absent, or both given
Credits == {<<<< >>, 0>>, <<<<"A", "-", "n", "!">>, 7>>}

AudioTags ==
    {Tags(t, f, c[1], c[2], 1) : t \in Titles, f \in FileNames, c \in Credits}

\* the external references the ingestion specification draws from
IngestFileIds == {"f1", "f2"}

VARIABLES
    up,             \* the process is running (load_tracks has run)
    tracks_storage, \* the dict, as the sequence of its records in insertion order
    disk,           \* music/tracks.json: [kind, data]
    blobs,          \* the blob files that exist under music/
    th,             \* per thread of control: position and locals
    clock,          \* datetime.now(), as the number of registrations so far
    credited,       \* per id: play requests whose increment has been issued
    seen,           \* per reader: the catalog states since its read began
    last,           \* what the step just taken answered or logged, if anything
    reqs,           \* requests taken up so far
    listed,         \* the latest read answered on a catalog not mutated since
    save_errors,    \* the process has logged "Save error"
    BOT_TOKEN,      \* os.getenv('BOT_TOKEN', '') is not empty
    WEBHOOK_URL,    \* os.getenv('WEBHOOK_URL', '') is not empty
    telegram_app,   \* the global is an Application (not None)
    main_pc,        \* where main() is
    update_queue,   \* queue.Queue(): the updates put and not yet taken
    update_processor, \* the task of process_telegram_updates: position and update
    accepted,       \* the updates the webhook has put on the queue, in order
    dispatched      \* the updates handed to process_update, in order

vars ==
    <<up, tracks_storage, disk, blobs, th, clock, credited, seen, last, reqs, listed,
      save_errors, BOT_TOKEN, WEBHOOK_URL, telegram_app, main_pc, update_queue,
      update_processor, accepted, dispatched>>

\* what the webhook, main() and the queue's task read and write
webhook_vars ==
    <<BOT_TOKEN, WEBHOOK_URL, telegram_app, main_pc, update_queue, update_processor,
      accepted, dispatched>>

\* ---------------------------------------------------------------- dict helpers
Keys(d) == {d[i].id : i \in 1 .. Len(d)}

Has(d, k) == k \in Keys(d)

IndexOf(d, k) == CHOOSE i \in 1 .. Len(d) : d[i].id = k

Get(d, k) == d[IndexOf(d, k)]

\* d[k] = r: a new key is appended, an existing key keeps its place
Put(d, k, r) ==
    IF Has(d, k) THEN [d EXCEPT ![IndexOf(d, k)] = r] ELSE Append(d, r)

\* f"{track_id}_{file_hash}.mp3" with file_hash = md5(file_id)[:8]
FileHash(fid) == <<"md5", fid>>

FilePath(k, fid) == <<k, FileHash(fid)>>

\* music/tracks.json: absent, a complete dump of a catalog, or content that
\* json.load rejects (an empty file, a dump cut short, a dump with a tail behind
\* it); size is the length of the content, in records
NoDisk == [kind |-> "missing", data |-> << >>, size |-> 0]
Garbage(n) == [kind |-> "corrupt", data |-> << >>, size |-> n]
GoodDisk(d) == [kind |-> "valid", data |-> d, size |-> Len(d)]

Idle ==
    [pc |-> "idle", id |-> "", path |-> << >>, tmp |-> 0, cur |-> 0, n0 |-> 0,
     img |-> << >>, actual |-> 0, fid |-> "", audio |-> NoTags,
     title |-> << >>, artist |-> << >>, duration |-> 0, q |-> << >>]

\* what the step just taken answered or logged: op, HTTP status (0: none), the
\* track id it was about and the outcome; for a read, the query as received and
\* as compared, the tracks (or top lines) and the numbers of the answer
NoResp ==
    [op |-> "none", status |-> 0, id |-> "", body |-> "", q |-> << >>,
     query |-> << >>, tracks |-> << >>, count |-> 0, total_tracks |-> 0,
     total_plays |-> 0, user_tracks |-> 0]

Resp(op, status, k, body) ==
    [NoResp EXCEPT !.op = op, !.status = status, !.id = k, !.body = body]

\* a read that was answered: which one, its query, and the tracks of the answer
NoRead == [op |-> "none", q |-> << >>, view |-> << >>]

Read(op, q, view) == [op |-> op, q |-> q, view |-> view]

\* the states every reader in progress has had the chance to observe
Observe(d) ==
    [t \in Threads |-> IF th[t].pc = "iter" THEN seen[t] \cup {d} ELSE seen[t]]

\* app.run(threaded=True) gives every request a thread of its own: which of the
\* free threads takes a request makes no difference, so the lowest does
Free(t) ==
    /\ th[t].pc = "idle"
    /\ \A u \in Threads : u < t => th[u].pc # "idle"

\* the task of process_telegram_updates: not created, or where it is in its loop
\* and the update it has taken
NoTask == [pc |-> "none", update |-> 0]

Task(pc, u) == [pc |-> pc, update |-> u]

\* the bot as the library's handlers find it: main() has set the webhook and
\* created the queue's task, and no update waits
WebhookMode ==
    /\ BOT_TOKEN = TRUE
    /\ WEBHOOK_URL = TRUE
    /\ telegram_app = TRUE
    /\ main_pc = "webhook"
    /\ update_queue = << >>
    /\ update_processor = Task("loop", 0)
    /\ accepted = << >>
    /\ dispatched = << >>

\* ---------------------------------------------------------------- startup
TypeOK ==
    /\ up \in BOOLEAN
    /\ disk.kind \in {"missing", "valid", "corrupt"}
    /\ \A p \in Procs : th[p].pc \in
          {"idle", "read", "write", "save", "dump", "close", "stream", "iter", "fetch",
           "register", "reply", "except"}
    /\ \A i \in 1 .. Len(tracks_storage) :
          tracks_storage[i].play_count \in 0 .. MaxRequests
    /\ reqs \in 0 .. MaxRequests
    /\ save_errors \in BOOLEAN
    /\ BOT_TOKEN \in BOOLEAN /\ WEBHOOK_URL \in BOOLEAN /\ telegram_app \in BOOLEAN
    /\ main_pc \in {"start", "setup", "branch", "webhook", "polling", "api-only"}
    /\ update_processor.pc \in {"none", "loop", "dispatch", "backoff"}
    /\ Len(accepted) <= MaxUpdates

Init ==
    /\ up = FALSE
    /\ tracks_storage = << >>
    /\ disk = NoDisk
    /\ blobs = {}
    /\ th = [p \in Procs |-> Idle]
    /\ clock = 0
    /\ credited = [k \in IdSpace |-> 0]
    /\ seen = [t \in Threads |-> {}]
    /\ last = NoResp
    /\ reqs = 0
    /\ listed = NoRead
    /\ save_errors = FALSE
    /\ WebhookMode

\* load_tracks
json_load(f) == IF f.kind = "valid" THEN f.data ELSE << >>

load_tracks ==
    /\ ~up
    /\ up' = TRUE
    /\ tracks_storage' = json_load(disk)
    /\ credited' = [k \in IdSpace |->
                      IF Has(json_load(disk), k)
                      THEN Get(json_load(disk), k).play_count ELSE 0]
    /\ last' = NoResp
    /\ listed' = NoRead
    /\ UNCHANGED <<disk, blobs, th, clock, seen, reqs, save_errors, webhook_vars>>

\* every thread of control dies with the process; the files stay as they are
Crash ==
    /\ up
    /\ up' = FALSE
    /\ tracks_storage' = << >>
    /\ th' = [p \in Procs |-> Idle]
    /\ credited' = [k \in IdSpace |-> 0]
    /\ seen' = [t \in Threads |-> {}]
    /\ last' = NoResp
    /\ listed' = NoRead
    /\ UNCHANGED <<disk, blobs, clock, reqs, webhook_vars>>
    /\ save_errors' = FALSE

\* a blob file removed from outside the program, between two runs of it (the
\* case os.path.exists guards against)
BlobLost(b) ==
    /\ ~up
    /\ b \in blobs
    /\ blobs' = blobs \ {b}
    /\ last' = NoResp
    /\ UNCHANGED <<up, tracks_storage, disk, th, clock, credited, seen, reqs, listed,
                   save_errors, webhook_vars>>

\* ---------------------------------------------------------------- save_tracks
\* The file is written through Python's buffered writer: a dump that fits the
\* buffer reaches the file in one write at offset 0 when the file is closed.
\* Sizes are counted in records (the records of this model encode to equal
\* lengths), so a write replaces the first records of what the file holds.
Saving(p) == th[p].pc \in {"dump", "close"}

\* where the caller of save_tracks goes on
AfterSave(p) == IF p = Bot THEN "reply" ELSE "stream"

Max(a, b) == IF a >= b THEN a ELSE b

\* the file after a complete image is written over what it holds: a longer
\* content keeps its tail behind the new closing brace
OverlayImage(f, img) ==
    IF f.size > Len(img) THEN Garbage(f.size) ELSE GoodDisk(img)

\* the file after the first n records of a dump (no closing brace) are written
\* over what it holds: they replace the first n records of a complete image
OverlayPrefix(f, img) ==
    IF f.kind = "valid" /\ f.size >= Len(img)
    THEN GoodDisk(img \o SubSeq(f.data, Len(img) + 1, f.size))
    ELSE Garbage(Max(f.size, Len(img)))

\* open(..., 'w') truncates the file; json.dump starts to traverse the dict
save_tracks_open(p) ==
    /\ up
    /\ th[p].pc = "save"
    /\ disk' = Garbage(0)
    /\ th' = [th EXCEPT ![p].pc = "dump", ![p].cur = 0, ![p].img = << >>,
                        ![p].n0 = Len(tracks_storage)]
    /\ last' = NoResp
    /\ UNCHANGED <<up, tracks_storage, blobs, clock, credited, seen, reqs, listed,
                   save_errors, webhook_vars>>

\* one item of the traversal is encoded into the buffer
save_tracks_dump(p) ==
    /\ up
    /\ th[p].pc = "dump"
    /\ Len(tracks_storage) = th[p].n0
    /\ th[p].cur < th[p].n0
    /\ th' = [th EXCEPT ![p].cur = @ + 1,
                        ![p].img = Append(@, tracks_storage[th[p].cur + 1])]
    /\ last' = NoResp
    /\ UNCHANGED <<up, tracks_storage, disk, blobs, clock, credited, seen, reqs, listed,
                   save_errors, webhook_vars>>

\* the traversal ends: the dict iterator is exhausted
save_tracks_dump_end(p) ==
    /\ up
    /\ th[p].pc = "dump"
    /\ Len(tracks_storage) = th[p].n0
    /\ th[p].cur = th[p].n0
    /\ th' = [th EXCEPT ![p].pc = "close"]
    /\ last' = NoResp
    /\ UNCHANGED <<up, tracks_storage, disk, blobs, clock, credited, seen, reqs, listed,
                   save_errors, webhook_vars>>

\* "dictionary changed size during iteration": the with block closes the file
\* on what was encoded so far, save_tracks catches the error and logs it
save_tracks_except(p) ==
    /\ up
    /\ th[p].pc = "dump"
    /\ Len(tracks_storage) # th[p].n0
    /\ disk' = OverlayPrefix(disk, th[p].img)
    /\ th' = [th EXCEPT ![p] = [@ EXCEPT !.pc = AfterSave(p), !.cur = 0, !.n0 = 0,
                                        !.img = << >>]]
    /\ last' = Resp("save", 0, th[p].id, "failed")
    /\ UNCHANGED <<up, tracks_storage, blobs, clock, credited, seen, reqs, listed,
                   webhook_vars>>
    /\ save_errors' = TRUE

\* the with block closes the file: the buffered image is written
save_tracks_close(p) ==
    /\ up
    /\ th[p].pc = "close"
    /\ disk' = OverlayImage(disk, th[p].img)
    /\ th' = [th EXCEPT ![p] = [@ EXCEPT !.pc = AfterSave(p), !.cur = 0, !.n0 = 0,
                                        !.img = << >>]]
    /\ last' = Resp("save", 0, th[p].id, "written")
    /\ UNCHANGED <<up, tracks_storage, blobs, clock, credited, seen, reqs, listed,
                   save_errors, webhook_vars>>

\* open(..., 'w') raises OSError (no permission, a read-only or full file system,
\* no file descriptor left): the file is as it was; save_tracks logs the error
\* and returns
\* save_tracks without its try: the error reaches the caller, whose request ends
\* in an error answer (the bot's handler goes to its except branch)
save_tracks_uncaught(p) ==
    /\ up
    /\ th[p].pc = "save"
    /\ th' = [th EXCEPT ![p] = IF p = Bot THEN [@ EXCEPT !.pc = "except"] ELSE Idle]
    /\ last' = Resp("save", 500, th[p].id, "failed")
    /\ save_errors' = TRUE
    /\ UNCHANGED <<up, tracks_storage, disk, blobs, clock, credited, seen, reqs, listed,
                   webhook_vars>>

save_tracks_open_fails(p) ==
    /\ up
    /\ th[p].pc = "save"
    /\ th' = [th EXCEPT ![p].pc = AfterSave(p)]
    /\ last' = Resp("save", 0, th[p].id, "failed")
    /\ save_errors' = TRUE
    /\ UNCHANGED <<up, tracks_storage, disk, blobs, clock, credited, seen, reqs, listed,
                   webhook_vars>>

\* the write of the buffered image raises OSError when the file is closed (no
\* space left, an I/O error): the file is left as open truncated it
save_tracks_close_fails(p) ==
    /\ up
    /\ th[p].pc = "close"
    /\ th' = [th EXCEPT ![p] = [@ EXCEPT !.pc = AfterSave(p), !.cur = 0, !.n0 = 0,
                                        !.img = << >>]]
    /\ last' = Resp("save", 0, th[p].id, "failed")
    /\ save_errors' = TRUE
    /\ UNCHANGED <<up, tracks_storage, disk, blobs, clock, credited, seen, reqs, listed,
                   webhook_vars>>

\* ---------------------------------------------------------------- play_track
Incremented(d, k, n) ==
    [d EXCEPT ![IndexOf(d, k)].play_count = n + 1]

\* play_track without its os.path.exists check
play_track_no_exists_check(t, k) ==
    /\ up
    /\ Free(t)
    /\ IF ~Has(tracks_storage, k)
       THEN /\ last' = Resp("play", 404, k, "Track not found")
            /\ UNCHANGED <<th, reqs>>
       ELSE /\ reqs < MaxRequests
            /\ reqs' = reqs + 1
            /\ th' = [th EXCEPT ![t] = [Idle EXCEPT !.pc = "read", !.id = k,
                                 !.path = Get(tracks_storage, k).file_path]]
            /\ last' = Resp("play", 0, k, "accepted")
    /\ UNCHANGED <<up, tracks_storage, disk, blobs, clock, credited, seen, listed,
                   save_errors, webhook_vars>>

play_track(t, k) ==
    /\ up
    /\ Free(t)
    /\ IF ~Has(tracks_storage, k)
       THEN /\ last' = Resp("play", 404, k, "Track not found")
            /\ UNCHANGED <<th, reqs>>
       ELSE IF Get(tracks_storage, k).file_path \notin blobs
       THEN /\ last' = Resp("play", 404, k, "Audio file not found")
            /\ UNCHANGED <<th, reqs>>
       ELSE /\ reqs < MaxRequests
            /\ reqs' = reqs + 1
            /\ th' = [th EXCEPT ![t] = [Idle EXCEPT !.pc = "read", !.id = k,
                                 !.path = Get(tracks_storage, k).file_path]]
            /\ last' = Resp("play", 0, k, "accepted")
    /\ UNCHANGED <<up, tracks_storage, disk, blobs, clock, credited, seen, listed,
                   save_errors, webhook_vars>>

\* tracks_storage[track_id].get('play_count', 0)
play_track_read(t) ==
    /\ up
    /\ th[t].pc = "read"
    /\ th' = [th EXCEPT ![t].pc = "write",
                        ![t].tmp = Get(tracks_storage, th[t].id).play_count]
    /\ last' = NoResp
    /\ UNCHANGED <<up, tracks_storage, disk, blobs, clock, credited, seen, reqs, listed,
                   save_errors, webhook_vars>>

\* tracks_storage[track_id]['play_count'] = ... + 1
play_track_write(t) ==
    /\ up
    /\ th[t].pc = "write"
    /\ tracks_storage' = Incremented(tracks_storage, th[t].id, th[t].tmp)
    /\ credited' = [credited EXCEPT ![th[t].id] = @ + 1]
    /\ seen' = Observe(tracks_storage')
    /\ th' = [th EXCEPT ![t].pc = "save", ![t].tmp = 0]
    /\ last' = NoResp
    /\ listed' = NoRead
    /\ UNCHANGED <<up, disk, blobs, clock, reqs, save_errors, webhook_vars>>

\* generate_audio read to its end: the file is opened when the first chunk is
\* asked for, and every chunk is sent
generate_audio(t) ==
    /\ up
    /\ th[t].pc = "stream"
    /\ th[t].path \in blobs
    /\ last' = Resp("stream", 200, th[t].id, "complete")
    /\ th' = [th EXCEPT ![t] = Idle]
    /\ UNCHANGED <<up, tracks_storage, disk, blobs, clock, credited, seen, reqs, listed,
                   save_errors, webhook_vars>>

\* the caller goes away before the last chunk (or before the first)
generate_audio_abort(t) ==
    /\ up
    /\ th[t].pc = "stream"
    /\ last' = Resp("stream", 200, th[t].id, "aborted")
    /\ th' = [th EXCEPT ![t] = Idle]
    /\ UNCHANGED <<up, tracks_storage, disk, blobs, clock, credited, seen, reqs, listed,
                   save_errors, webhook_vars>>

\* ---------------------------------------------------------------- download_track
\* download_track with play_track's counter line copied into it
download_track_counting(t, k) ==
    /\ up
    /\ Free(t)
    /\ last' = IF ~Has(tracks_storage, k)
               THEN Resp("download", 404, k, "Track not found")
               ELSE IF Get(tracks_storage, k).file_path \notin blobs
               THEN Resp("download", 404, k, "Audio file not found")
               ELSE Resp("download", 200, k, "served")
    /\ tracks_storage' =
          IF Has(tracks_storage, k) /\ Get(tracks_storage, k).file_path \in blobs
             /\ Get(tracks_storage, k).play_count < MaxRequests
          THEN Incremented(tracks_storage, k, Get(tracks_storage, k).play_count)
          ELSE tracks_storage
    /\ UNCHANGED <<up, disk, blobs, th, clock, credited, seen, reqs, listed, save_errors,
                   webhook_vars>>

download_track(t, k) ==
    /\ up
    /\ Free(t)
    /\ last' = IF ~Has(tracks_storage, k)
               THEN Resp("download", 404, k, "Track not found")
               ELSE IF Get(tracks_storage, k).file_path \notin blobs
               THEN Resp("download", 404, k, "Audio file not found")
               ELSE Resp("download", 200, k, "served")
    /\ UNCHANGED <<up, tracks_storage, disk, blobs, th, clock, credited, seen, reqs, listed,
                   save_errors, webhook_vars>>

\* ---------------------------------------------------------------- DELETE
\* The routes are registered for GET alone (only /webhook names its methods), and
\* no bot command removes a track: a DELETE request for a track, which the CORS
\* headers invite, is answered 405 by the routing and reaches no handler.
delete_request(t, k) ==
    /\ up
    /\ Free(t)
    /\ last' = Resp("delete", 405, k, "Method Not Allowed")
    /\ UNCHANGED <<up, tracks_storage, disk, blobs, th, clock, credited, seen, reqs,
                   listed, save_errors, webhook_vars>>

\* ---------------------------------------------------------------- get_tracks
\* the view with the record's file_path left in
safe_track_with_path(r) ==
    [id |-> r.id, title |-> r.title, artist |-> r.artist, duration |-> r.duration,
     uploaded_at |-> r.uploaded_at, play_count |-> r.play_count,
     file_path |-> r.file_path]

safe_track(r) ==
    [id |-> r.id, title |-> r.title, artist |-> r.artist, duration |-> r.duration,
     uploaded_at |-> r.uploaded_at, play_count |-> r.play_count]

\* list.sort(key=uploaded_at, reverse=True): stable, newest first
RECURSIVE InsertDesc(_, _)
InsertDesc(s, x) ==
    IF s = << >> THEN <<x>>
    ELSE IF Head(s).uploaded_at >= x.uploaded_at
    THEN <<Head(s)>> \o InsertDesc(Tail(s), x)
    ELSE <<x>> \o s

RECURSIVE SortDesc(_)
SortDesc(s) ==
    IF s = << >> THEN << >>
    ELSE InsertDesc(SortDesc(SubSeq(s, 1, Len(s) - 1)), s[Len(s)])

\* what get_tracks answers on a catalog that does not change under it
ListView(d) == SortDesc([i \in 1 .. Len(d) |-> safe_track(d[i])])

get_tracks(t) ==
    /\ up
    /\ Free(t)
    /\ reqs < MaxRequests
    /\ reqs' = reqs + 1
    /\ th' = [th EXCEPT ![t] = [Idle EXCEPT !.pc = "iter",
                                            !.n0 = Len(tracks_storage)]]
    /\ seen' = [seen EXCEPT ![t] = {tracks_storage}]
    /\ last' = NoResp
    /\ UNCHANGED <<up, tracks_storage, disk, blobs, clock, credited, listed, save_errors,
                   webhook_vars>>

get_tracks_step(t) ==
    /\ up
    /\ th[t].pc = "iter"
    /\ Len(tracks_storage) = th[t].n0
    /\ th[t].cur < th[t].n0
    /\ th' = [th EXCEPT ![t].cur = @ + 1,
                        ![t].img = Append(@, safe_track(tracks_storage[th[t].cur + 1]))]
    /\ last' = NoResp
    /\ UNCHANGED <<up, tracks_storage, disk, blobs, clock, credited, seen, reqs, listed,
                   save_errors, webhook_vars>>

\* "dictionary changed size during iteration": the request ends in a 500
get_tracks_error(t) ==
    /\ up
    /\ th[t].pc = "iter"
    /\ Len(tracks_storage) # th[t].n0
    /\ last' = Resp("list", 500, "", "RuntimeError")
    /\ th' = [th EXCEPT ![t] = Idle]
    /\ seen' = [seen EXCEPT ![t] = {}]
    /\ UNCHANGED <<up, tracks_storage, disk, blobs, clock, credited,
                   reqs, listed, save_errors, webhook_vars>>

get_tracks_return(t) ==
    /\ up
    /\ th[t].pc = "iter"
    /\ Len(tracks_storage) = th[t].n0
    /\ th[t].cur = th[t].n0
    /\ last' = [Resp("list", 200, "", "tracks") EXCEPT
                    !.tracks = SortDesc(th[t].img), !.count = Len(th[t].img)]
    /\ listed' = IF seen[t] = {tracks_storage}
                 THEN Read("list", << >>, SortDesc(th[t].img)) ELSE listed
    /\ th' = [th EXCEPT ![t] = Idle]
    /\ seen' = [seen EXCEPT ![t] = {}]
    /\ UNCHANGED <<up, tracks_storage, disk, blobs, clock, credited,
                   reqs, save_errors, webhook_vars>>

\* ---------------------------------------------------------------- search_tracks
search_safe_track(r) ==
    [id |-> r.id, title |-> r.title, artist |-> r.artist, duration |-> r.duration,
     play_count |-> r.play_count]

\* query in track['title'].lower() or query in track['artist'].lower()
Matches(query, r) ==
    Contains(query, lower(r.title)) \/ Contains(query, lower(r.artist))

\* the loop over tracks_storage.values(), on a catalog that does not change under it
RECURSIVE SearchResults(_, _)
SearchResults(d, query) ==
    IF d = << >> THEN << >>
    ELSE IF Matches(query, Head(d))
    THEN <<search_safe_track(Head(d))>> \o SearchResults(Tail(d), query)
    ELSE SearchResults(Tail(d), query)

\* search_tracks that looks at the title only
search_tracks_title_only(t, q) ==
    /\ up
    /\ Free(t)
    /\ LET query == lower(strip(q))
           found == SelectSeq(tracks_storage,
                              LAMBDA r : Contains(query, lower(r.title)))
           results == [i \in 1 .. Len(found) |-> search_safe_track(found[i])]
       IN  IF query = << >>
           THEN /\ last' = [Resp("search", 400, "", "Query parameter \"q\" is required")
                               EXCEPT !.q = q]
                /\ UNCHANGED listed
           ELSE /\ last' = [Resp("search", 200, "", "tracks") EXCEPT
                               !.q = q, !.query = query, !.tracks = results,
                               !.count = Len(results)]
                /\ listed' = Read("search", q, results)
    /\ UNCHANGED <<up, tracks_storage, disk, blobs, th, clock, credited, seen, reqs,
                   save_errors, webhook_vars>>

search_tracks(t, q) ==
    /\ up
    /\ Free(t)
    /\ LET query == lower(strip(q))
           results == SearchResults(tracks_storage, query)
       IN  IF query = << >>
           THEN /\ last' = [Resp("search", 400, "", "Query parameter \"q\" is required")
                               EXCEPT !.q = q]
                /\ UNCHANGED listed
           ELSE /\ last' = [Resp("search", 200, "", "tracks") EXCEPT
                               !.q = q, !.query = query, !.tracks = results,
                               !.count = Len(results)]
                /\ listed' = Read("search", q, results)
    /\ UNCHANGED <<up, tracks_storage, disk, blobs, th, clock, credited, seen, reqs,
                   save_errors, webhook_vars>>

\* ---------------------------------------------------------------- get_stats, stats_command
\* 3, the length of the list stats_command shows
TopN == 3

\* sum(track.get('play_count', 0) for track in tracks_storage.values())
RECURSIVE SumPlays(_)
SumPlays(d) ==
    IF d = << >> THEN 0 ELSE Head(d).play_count + SumPlays(Tail(d))

get_stats(t) ==
    /\ up
    /\ Free(t)
    /\ last' = [Resp("stats", 200, "", "stats") EXCEPT
                    !.total_tracks = Len(tracks_storage),
                    !.total_plays = SumPlays(tracks_storage)]
    /\ UNCHANGED <<up, tracks_storage, disk, blobs, th, clock, credited, seen, reqs,
                   listed, save_errors, webhook_vars>>

RECURSIVE InsertByPlays(_, _)
InsertByPlays(s, x) ==
    IF s = << >> THEN <<x>>
    ELSE IF Head(s).play_count >= x.play_count
    THEN <<Head(s)>> \o InsertByPlays(Tail(s), x)
    ELSE <<x>> \o s

RECURSIVE InsertByPlaysAsc(_, _)
InsertByPlaysAsc(s, x) ==
    IF s = << >> THEN <<x>>
    ELSE IF Head(s).play_count <= x.play_count
    THEN <<Head(s)>> \o InsertByPlaysAsc(Tail(s), x)
    ELSE <<x>> \o s

RECURSIVE SortAsc(_)
SortAsc(d) ==
    IF d = << >> THEN << >>
    ELSE InsertByPlaysAsc(SortAsc(SubSeq(d, 1, Len(d) - 1)), d[Len(d)])

\* sorted(...) in ascending order, then reversed: equal counts end up in the
\* reverse of the insertion order
SortedAscReversed(d) ==
    [i \in 1 .. Len(d) |-> SortAsc(d)[Len(d) + 1 - i]]

\* sorted(tracks_storage.values(), key=play_count, reverse=True): stable
RECURSIVE SortByPlays(_)
SortByPlays(d) ==
    IF d = << >> THEN << >>
    ELSE InsertByPlays(SortByPlays(SubSeq(d, 1, Len(d) - 1)), d[Len(d)])

Min(a, b) == IF a <= b THEN a ELSE b

\* [:3], and one line of the message per track
TopLines(d) ==
    [i \in 1 .. Min(TopN, Len(d)) |->
        [title |-> SortByPlays(d)[i].title, play_count |-> SortByPlays(d)[i].play_count]]

stats_command(user) ==
    /\ up
    /\ th[Bot].pc = "idle"
    /\ last' = [Resp("stats_command", 0, "", "stats") EXCEPT
                    !.total_tracks = Len(tracks_storage),
                    !.total_plays = SumPlays(tracks_storage),
                    !.user_tracks = Len(SelectSeq(tracks_storage,
                                                  LAMBDA r : r.user_id = user)),
                    !.tracks = TopLines(tracks_storage)]
    /\ UNCHANGED <<up, tracks_storage, disk, blobs, th, clock, credited, seen, reqs,
                   listed, save_errors, webhook_vars>>

\* ---------------------------------------------------------------- handle_audio_upload
TooLarge(declared) == declared # 0 /\ declared > SizeLimit

handle_audio_upload(declared, actual, fid, tags) ==
    /\ up
    /\ th[Bot].pc = "idle"
    /\ IF TooLarge(declared)
       THEN /\ last' = Resp("upload", 0, "", "TooLarge")
            /\ UNCHANGED <<th, reqs>>
       ELSE /\ reqs < MaxRequests
            /\ reqs' = reqs + 1
            /\ th' = [th EXCEPT ![Bot] = [Idle EXCEPT !.pc = "fetch",
                                 !.actual = actual, !.fid = fid,
                                 !.audio = tags]]
            /\ last' = NoResp
    /\ UNCHANGED <<up, tracks_storage, disk, blobs, clock, credited, seen, listed,
                   save_errors, webhook_vars>>

\* the tags are read and cleaned, track_id = str(uuid.uuid4())[:8], then
\* file.download_to_drive(file_path)
handle_audio_upload_download(k) ==
    /\ up
    /\ th[Bot].pc = "fetch"
    /\ blobs' = blobs \cup {FilePath(k, th[Bot].fid)}
    /\ th' = [th EXCEPT ![Bot].pc = "register", ![Bot].id = k,
                        ![Bot].path = FilePath(k, th[Bot].fid),
                        ![Bot].title = Sanitize(OrElse(th[Bot].audio.title,
                                          OrElse(th[Bot].audio.file_name, UnknownTitle))),
                        ![Bot].artist = Sanitize(OrElse(th[Bot].audio.performer,
                                                        UnknownArtist)),
                        ![Bot].duration = th[Bot].audio.duration]
    /\ last' = NoResp
    /\ UNCHANGED <<up, tracks_storage, disk, clock, credited, seen, reqs, listed,
                   save_errors, webhook_vars>>

\* context.bot.get_file raises (the external reference is unknown or no longer
\* served, the network fails): nothing has been written
handle_audio_upload_get_file_fails ==
    /\ up
    /\ th[Bot].pc = "fetch"
    /\ th' = [th EXCEPT ![Bot].pc = "except"]
    /\ last' = NoResp
    /\ UNCHANGED <<up, tracks_storage, disk, blobs, clock, credited, seen, reqs, listed,
                   save_errors, webhook_vars>>

\* file.download_to_drive raises while it writes the file: the file stays, cut
\* short (when it raises before it has created the file, nothing has been
\* written, as when get_file raises)
handle_audio_upload_download_fails(k) ==
    /\ up
    /\ th[Bot].pc = "fetch"
    /\ blobs' = blobs \cup {FilePath(k, th[Bot].fid)}
    /\ th' = [th EXCEPT ![Bot].pc = "except", ![Bot].id = k,
                        ![Bot].path = FilePath(k, th[Bot].fid)]
    /\ last' = NoResp
    /\ UNCHANGED <<up, tracks_storage, disk, clock, credited, seen, reqs, listed,
                   save_errors, webhook_vars>>

\* a record with title and artist in each other's place
NewTrackSwapped(k, title, artist, fid, duration, user_id, now) ==
    [id |-> k, title |-> artist, artist |-> title, file_path |-> FilePath(k, fid),
     file_id |-> fid, duration |-> duration, user_id |-> user_id,
     uploaded_at |-> now, play_count |-> 0]

NewTrack(k, title, artist, fid, duration, user_id, now) ==
    [id |-> k, title |-> title, artist |-> artist, file_path |-> FilePath(k, fid),
     file_id |-> fid, duration |-> duration, user_id |-> user_id,
     uploaded_at |-> now, play_count |-> 0]

\* tracks_storage[track_id] = {...}
handle_audio_upload_register ==
    /\ up
    /\ th[Bot].pc = "register"
    /\ tracks_storage' = Put(tracks_storage, th[Bot].id,
                             NewTrack(th[Bot].id, th[Bot].title, th[Bot].artist,
                                      th[Bot].fid, th[Bot].duration,
                                      th[Bot].audio.user_id, clock + 1))
    /\ clock' = clock + 1
    /\ credited' = [credited EXCEPT ![th[Bot].id] = 0]
    /\ seen' = Observe(tracks_storage')
    /\ th' = [th EXCEPT ![Bot].pc = "save", ![Bot].actual = 0]
    /\ last' = NoResp
    /\ listed' = NoRead
    /\ UNCHANGED <<up, disk, blobs, reqs, save_errors, webhook_vars>>

\* status_msg.edit_text(success_text)
handle_audio_upload_reply ==
    /\ up
    /\ th[Bot].pc = "reply"
    /\ last' = Resp("upload", 0, th[Bot].id, "Registered")
    /\ th' = [th EXCEPT ![Bot] = Idle]
    /\ UNCHANGED <<up, tracks_storage, disk, blobs, clock, credited, seen, reqs, listed,
                   save_errors, webhook_vars>>

\* status_msg.edit_text(success_text) raises
handle_audio_upload_reply_fails ==
    /\ up
    /\ th[Bot].pc = "reply"
    /\ th' = [th EXCEPT ![Bot].pc = "except"]
    /\ last' = NoResp
    /\ UNCHANGED <<up, tracks_storage, disk, blobs, clock, credited, seen, reqs, listed,
                   save_errors, webhook_vars>>

\* except Exception: the error is logged and reported to the sender
handle_audio_upload_except ==
    /\ up
    /\ th[Bot].pc = "except"
    /\ last' = Resp("upload", 0, th[Bot].id, "Failed")
    /\ th' = [th EXCEPT ![Bot] = Idle]
    /\ UNCHANGED <<up, tracks_storage, disk, blobs, clock, credited, seen, reqs, listed,
                   save_errors, webhook_vars>>

\* ---------------------------------------------------------------- telegram_webhook
\* what the library's handlers read and write
library_vars ==
    <<up, tracks_storage, disk, blobs, th, clock, credited, seen, reqs, listed,
      save_errors>>

\* POST /webhook, on a Flask thread (the server runs from the start of main()):
\* request.get_json() is an update, numbered in the order of arrival, or is empty
telegram_webhook(has_data) ==
    /\ up
    /\ main_pc # "start"
    /\ IF ~BOT_TOKEN
       THEN /\ last' = Resp("webhook", 400, "", "Bot not configured")
            /\ UNCHANGED <<update_queue, accepted>>
       ELSE IF has_data
       THEN /\ Len(accepted) < MaxUpdates
            /\ update_queue' = Append(update_queue, Len(accepted) + 1)
            /\ accepted' = Append(accepted, Len(accepted) + 1)
            /\ last' = Resp("webhook", 200, "", "OK")
       ELSE /\ last' = Resp("webhook", 200, "", "OK")
            /\ UNCHANGED <<update_queue, accepted>>
    /\ UNCHANGED <<library_vars, BOT_TOKEN, WEBHOOK_URL, telegram_app, main_pc,
                   update_processor, dispatched>>

\* main(): flask_thread.start()
main_start ==
    /\ main_pc = "start"
    /\ main_pc' = "setup"
    /\ last' = NoResp
    /\ UNCHANGED <<library_vars, BOT_TOKEN, WEBHOOK_URL, telegram_app, update_queue,
                   update_processor, accepted, dispatched>>

\* telegram_app = await setup_telegram_bot(): None without a token or when the
\* Application cannot be built
setup_telegram_bot(built) ==
    /\ main_pc = "setup"
    /\ telegram_app' = (BOT_TOKEN /\ built)
    /\ main_pc' = "branch"
    /\ last' = NoResp
    /\ UNCHANGED <<library_vars, BOT_TOKEN, WEBHOOK_URL, update_queue,
                   update_processor, accepted, dispatched>>

\* the mode main() goes on in: only the webhook mode creates the queue's task
main_branch ==
    /\ main_pc = "branch"
    /\ IF telegram_app /\ WEBHOOK_URL
       THEN /\ main_pc' = "webhook"
            /\ update_processor' = Task("loop", 0)
       ELSE /\ main_pc' = IF telegram_app THEN "polling" ELSE "api-only"
            /\ UNCHANGED update_processor
    /\ last' = NoResp
    /\ UNCHANGED <<library_vars, BOT_TOKEN, WEBHOOK_URL, telegram_app, update_queue,
                   accepted, dispatched>>

\* process_telegram_updates: update_queue.get_nowait() when the queue is not
\* empty (on an empty queue the loop sleeps and looks again)
process_telegram_updates_get ==
    /\ update_processor.pc = "loop"
    /\ update_queue # << >>
    /\ update_queue' = Tail(update_queue)
    /\ update_processor' = IF telegram_app THEN Task("dispatch", Head(update_queue))
                           ELSE update_processor
    /\ last' = NoResp
    /\ UNCHANGED <<library_vars, BOT_TOKEN, WEBHOOK_URL, telegram_app, main_pc,
                   accepted, dispatched>>

\* await telegram_app.process_update(update) returns; asyncio.sleep(0.1)
process_update ==
    /\ update_processor.pc = "dispatch"
    /\ dispatched' = Append(dispatched, update_processor.update)
    /\ update_processor' = Task("loop", 0)
    /\ last' = NoResp
    /\ UNCHANGED <<library_vars, BOT_TOKEN, WEBHOOK_URL, telegram_app, main_pc,
                   update_queue, accepted>>

\* await telegram_app.process_update(update) raises: the error is logged
process_update_raises ==
    /\ update_processor.pc = "dispatch"
    /\ dispatched' = Append(dispatched, update_processor.update)
    /\ update_processor' = Task("backoff", 0)
    /\ last' = Resp("update", 0, "", "Update processing error")
    /\ UNCHANGED <<library_vars, BOT_TOKEN, WEBHOOK_URL, telegram_app, main_pc,
                   update_queue, accepted>>

\* await asyncio.sleep(1) in the except branch, then the loop goes on
process_telegram_updates_sleep ==
    /\ update_processor.pc = "backoff"
    /\ update_processor' = Task("loop", 0)
    /\ last' = NoResp
    /\ UNCHANGED <<library_vars, BOT_TOKEN, WEBHOOK_URL, telegram_app, main_pc,
                   update_queue, accepted, dispatched>>

\* ---------------------------------------------------------------- properties
Count(k) == Get(tracks_storage, k).play_count

\* the positions in which a mutation of the catalog is under way
Mutating(p) == th[p].pc \in {"read", "write", "save", "dump", "close", "register"}

\* C1: N accepted play requests on an id leave its play_count exactly N higher,
\* however they interleave: the count of an id is always the number of increments
\* issued for it (from the loaded or registered value on).
NoLostIncrement ==
    up => \A k \in Keys(tracks_storage) : Count(k) = credited[k]

\* C2: every successful ingestion registers under an id that is not in the
\* catalog yet, so the catalog grows by exactly one entry and none is overwritten.
FreshIdPerIngestion ==
    [][(th[Bot].pc = "register" /\ th'[Bot].pc = "save")
          => /\ ~Has(tracks_storage, th[Bot].id)
             /\ Len(tracks_storage') = Len(tracks_storage) + 1]_vars

\* C3: an accepted play request raises its track's play_count by exactly 1, once,
\* before it streams; no other track's count changes, and streaming the whole
\* file, a part of it or nothing changes no count.
PlayCreditsExactlyOnce ==
    [][\A t \in Threads :
          /\ (th[t].pc = "write" /\ th'[t].pc = "save")
                => /\ Get(tracks_storage', th[t].id).play_count = Count(th[t].id) + 1
                   /\ \A k \in Keys(tracks_storage) \ {th[t].id} :
                         Get(tracks_storage', k).play_count = Count(k)
          /\ (th'[t].pc = "stream" /\ th[t].pc # "stream") => Saving(t)
          /\ (th[t].pc = "stream" /\ th'[t] # th[t] /\ up')
                => tracks_storage' = tracks_storage]_vars

\* C4: a download request, whatever it answers, changes neither the catalog nor
\* the snapshot, and starts no snapshot write.
DownloadLeavesCatalog ==
    [][last'.op = "download" => UNCHANGED <<tracks_storage, disk, blobs, th>>]_vars

DownloadServed ==
    /\ last.op = "download"
    /\ last.status = 200
    /\ Has(tracks_storage, last.id)
    /\ Count(last.id) > 0

\* C5: a play or download request for an id that is not in the catalog answers
\* 404 "Track not found", one for an id whose blob file does not exist answers 404
\* "Audio file not found", and neither changes the catalog or the snapshot.
MissingAnswers404 ==
    [][\A k \in IdSpace :
          (last'.op \in {"play", "download"} /\ last'.id = k)
             => /\ ~Has(tracks_storage, k)
                   => /\ last'.status = 404
                      /\ last'.body = "Track not found"
                      /\ UNCHANGED <<tracks_storage, disk, th>>
                /\ (Has(tracks_storage, k)
                    /\ Get(tracks_storage, k).file_path \notin blobs)
                   => /\ last'.status = 404
                      /\ last'.body = "Audio file not found"
                      /\ UNCHANGED <<tracks_storage, disk, th>>]_vars

FileMissingAnswered ==
    /\ last.op = "play"
    /\ last.status = 404
    /\ last.body = "Audio file not found"
    /\ Has(tracks_storage, last.id)

\* C6: a payload over the ceiling, also one whose declared size is absent or
\* understated, is rejected: the upload that carries it writes no blob file and
\* registers no catalog entry.
OversizeLeavesNothing ==
    [][(th[Bot].actual > SizeLimit /\ th'[Bot] # th[Bot] /\ up')
          => /\ blobs' = blobs
             /\ tracks_storage' = tracks_storage]_vars

\* C7: a crash while a snapshot write is under way leaves a snapshot file that
\* loads (it is never left empty, truncated or partially written).
CrashKeepsSnapshot ==
    [][(up /\ ~up' /\ \E p \in Procs : Saving(p)) => disk'.kind # "corrupt"]_vars

\* C8: whenever no mutating operation is in progress, the snapshot on disk is
\* well-formed and equal to the in-memory catalog.
QuiescentSnapshotCurrent ==
    (up /\ tracks_storage # << >> /\ \A p \in Procs : ~Mutating(p))
       => disk = GoodDisk(tracks_storage)

\* C9: startup turns a missing snapshot into the empty catalog and a valid one
\* into the catalog it holds, and never goes on to serve from a corrupt one.
StartupLoadsOrFails ==
    [][(~up /\ up')
          => /\ disk.kind # "corrupt"
             /\ disk.kind = "missing" => tracks_storage' = << >>
             /\ disk.kind = "valid" => tracks_storage' = disk.data]_vars

\* C10: a list read that runs while the catalog is mutated ends in success with
\* the answer it would give on one of the catalog states that existed between its
\* start and its end, and the traversal of a snapshot write never fails either.
ReadsAreConsistent ==
    [][/\ \A t \in Threads :
             (th[t].pc = "iter" /\ th'[t].pc = "idle" /\ up')
                => /\ last'.status = 200
                   /\ \E c \in seen[t] : SortDesc(th[t].img) = ListView(c)
       /\ last'.op = "save" => last'.body = "written"]_vars

\* C11: the play_count of an id is 0 when the id is registered, is never negative
\* and never decreases while the id stays in the catalog of a running process;
\* no later ingestion resets the count of an id the catalog holds.
CountNeverDecreases ==
    [][(up /\ up')
          => /\ \A k \in Keys(tracks_storage) \cap Keys(tracks_storage') :
                   Get(tracks_storage', k).play_count >= Count(k)
             /\ \A k \in Keys(tracks_storage') :
                   /\ Get(tracks_storage', k).play_count >= 0
                   /\ ~Has(tracks_storage, k) => Get(tracks_storage', k).play_count = 0]_vars

\* the catalog entries that reference blob file b
Referencing(d, b) == {i \in 1 .. Len(d) : d[i].file_path = b}

\* C13: an ingestion that ends in failure after it started to write its blob file
\* has deleted the file before it reports the failure: when the failure is
\* reported, the file it wrote does not exist unless a catalog entry references it.
FailedIngestionLeavesNoBlob ==
    [][(last'.op = "upload" /\ last'.body = "Failed" /\ th[Bot].path \in blobs')
          => Referencing(tracks_storage', th[Bot].path) # {}]_vars

\* C12: every track in the catalog has a non-empty title; an upload whose title is
\* empty after sanitization registers no entry.
TitleNeverEmpty ==
    \A i \in 1 .. Len(tracks_storage) : tracks_storage[i].title # << >>

\* the title and the artist handle_audio_upload is to store for tags m
TitleFor(m) ==
    Sanitize(IF m.title # << >> THEN m.title
             ELSE IF m.file_name # << >> THEN m.file_name ELSE UnknownTitle)

ArtistFor(m) == Sanitize(IF m.performer # << >> THEN m.performer ELSE UnknownArtist)

\* characters the sanitizer lets through, none of them whitespace at either end
Clean(s) ==
    /\ \A i \in 1 .. Len(s) : KeepChar(s[i])
    /\ s # << >> => (s[1] \notin Whitespace /\ s[Len(s)] \notin Whitespace)

\* C17: when an ingestion of tags m reports success with id i, the catalog holds
\* under i a record with id i, the sanitized title and artist of m (file name or
\* placeholder for a missing title, placeholder for a missing artist), m's
\* duration (0 when unknown) and play_count 0, and the list view shows a track
\* with these public fields.
IngestionRoundTrip ==
    [][(last'.op = "upload" /\ last'.body = "Registered")
          => LET i == last'.id
                 m == th[Bot].audio
             IN  /\ Has(tracks_storage', i)
                 /\ Get(tracks_storage', i).id = i
                 /\ Get(tracks_storage', i).title = TitleFor(m)
                 /\ Get(tracks_storage', i).artist = ArtistFor(m)
                 /\ Clean(Get(tracks_storage', i).title)
                 /\ Clean(Get(tracks_storage', i).artist)
                 /\ Get(tracks_storage', i).duration = m.duration
                 /\ Get(tracks_storage', i).play_count = 0
                 /\ \E j \in 1 .. Len(tracks_storage') :
                       /\ ListView(tracks_storage')[j].id = i
                       /\ ListView(tracks_storage')[j].title = TitleFor(m)
                       /\ ListView(tracks_storage')[j].artist = ArtistFor(m)
                       /\ ListView(tracks_storage')[j].duration = m.duration
                       /\ ListView(tracks_storage')[j].play_count = 0]_vars

\* a success reported for a message with no title and no performer, stored under
\* the cleaned file name and the placeholder artist
FallbacksRegistered ==
    /\ last.op = "upload"
    /\ last.body = "Registered"
    /\ Has(tracks_storage, last.id)
    /\ Get(tracks_storage, last.id).title = <<"s", "m", "p", "3">>
    /\ Get(tracks_storage, last.id).artist = UnknownArtist
    /\ Get(tracks_storage, last.id).duration = 0

\* C14: a search whose query is empty, or empty once trimmed, answers 400 and no
\* tracks; any other search answers exactly the catalog tracks whose title or
\* artist contains the trimmed query, letter case aside, in the catalog's
\* iteration order and with their fields, and count is the number of results.
SearchAnswersExactly ==
    [][last'.op = "search"
          => LET query == lower(strip(last'.q))
                 found == last'.tracks
                 d == tracks_storage
             IN  IF strip(last'.q) = << >>
                 THEN /\ last'.status = 400
                      /\ last'.body = "Query parameter \"q\" is required"
                      /\ found = << >>
                 ELSE /\ last'.status = 200
                      /\ last'.query = query
                      /\ last'.count = Len(found)
                      /\ \A i \in 1 .. Len(d) :
                            (\E j \in 1 .. Len(found) : found[j].id = d[i].id)
                               <=> \/ Contains(query, lower(d[i].title))
                                   \/ Contains(query, lower(d[i].artist))
                      /\ \A j \in 1 .. Len(found) :
                            /\ Has(d, found[j].id)
                            /\ found[j] = search_safe_track(Get(d, found[j].id))
                            /\ \A j2 \in j + 1 .. Len(found) :
                                  IndexOf(d, found[j].id) < IndexOf(d, found[j2].id)]_vars

\* a padded query in capitals answered with the one track it matches by artist only
SearchMatchedByArtist ==
    /\ last.op = "search"
    /\ last.q = <<"S", "A", "m", " ">>
    /\ last.status = 200
    /\ last.count = 1
    /\ last.tracks[1].artist = <<"S", "a", "m">>

\* the fields of a track the public views must not show
Internal == {"file_path", "file_id", "user_id"}

\* other values for the internal fields of every track
OtherInternals ==
    {[file_path |-> <<"z", FileHash("f9")>>, file_id |-> "f9", user_id |-> 9],
     [file_path |-> << >>, file_id |-> "", user_id |-> 0]}

WithInternals(d, h) ==
    [i \in 1 .. Len(d) |->
        [d[i] EXCEPT !.file_path = h.file_path, !.file_id = h.file_id,
                     !.user_id = h.user_id]]

\* C16: the track views that list and search answer with hold no blob location, no
\* external reference and no uploader, and are the views a catalog that differs
\* only in those fields answers with.
PublicViewsHideInternals ==
    [][/\ (last'.op = "list" /\ last'.status = 200)
             => /\ \A j \in 1 .. Len(last'.tracks) :
                      DOMAIN last'.tracks[j] \cap Internal = {}
                /\ \A h \in OtherInternals :
                      last'.tracks = ListView(WithInternals(tracks_storage, h))
       /\ (last'.op = "search" /\ last'.status = 200)
             => /\ \A j \in 1 .. Len(last'.tracks) :
                      DOMAIN last'.tracks[j] \cap Internal = {}
                /\ \A h \in OtherInternals :
                      last'.tracks =
                         SearchResults(WithInternals(tracks_storage, h),
                                       last'.query)]_vars

ListedSeveral ==
    /\ last.op = "list"
    /\ last.status = 200
    /\ Len(last.tracks) >= 2
    /\ \A i \in 1 .. Len(tracks_storage) : tracks_storage[i].file_path \in blobs

\* C18: a list read, or a search with the same query, answered on a catalog that
\* no ingestion and no play has changed since the same read was last answered,
\* gives the same answer: same tracks, order, field values and count.
RepeatedReadSameAnswer ==
    [][/\ \A t \in Threads :
             (/\ th[t].pc = "iter" /\ th'[t].pc = "idle" /\ last'.op = "list"
              /\ last'.status = 200
              /\ seen[t] = {tracks_storage}
              /\ listed.op = "list")
                => last'.tracks = listed.view
       /\ (/\ last'.op = "search" /\ last'.status = 200
           /\ listed.op = "search"
           /\ listed.q = last'.q)
             => last'.tracks = listed.view]_vars

\* a second list read answered right after a first, on a catalog of several tracks
ListedTwice ==
    /\ last.op = "list"
    /\ last.status = 200
    /\ reqs >= 2
    /\ listed.op = "list"
    /\ Len(listed.view) >= 2

\* track i of catalog d comes before track j in the order of the top list
Outranks(d, i, j) ==
    \/ d[i].play_count > d[j].play_count
    \/ d[i].play_count = d[j].play_count /\ i < j

\* C19: the statistics give the number of catalog entries and the sum of their
\* play counts; the top list of the stats command holds the 3 most played tracks
\* (all, when there are fewer), most played first, equal counts in insertion order.
StatsAndTopList ==
    [][/\ last'.op \in {"stats", "stats_command"}
             => /\ last'.total_tracks = Cardinality(Keys(tracks_storage))
                /\ last'.total_plays = SumPlays(tracks_storage)
       /\ last'.op = "stats_command"
             => LET d == tracks_storage
                    top == last'.tracks
                    k == IF Len(d) < 3 THEN Len(d) ELSE 3
                IN  /\ Len(top) = k
                    /\ \E idx \in [1 .. k -> 1 .. Len(d)] :
                          /\ \A j \in 1 .. k :
                                /\ top[j].title = d[idx[j]].title
                                /\ top[j].play_count = d[idx[j]].play_count
                                /\ \A j2 \in j + 1 .. k : Outranks(d, idx[j], idx[j2])
                                /\ \A i \in 1 .. Len(d) :
                                      (\A j2 \in 1 .. k : idx[j2] # i)
                                         => Outranks(d, idx[j], i)]_vars

\* a top list cut out of four tracks, with equal counts among the first three
TopOfFourWithTies ==
    /\ last.op = "stats_command"
    /\ Len(tracks_storage) = 4
    /\ last.total_plays = 2
    /\ tracks_storage[2].play_count = 1
    /\ tracks_storage[4].play_count = 1
    /\ last.tracks[1].title = tracks_storage[2].title
    /\ last.tracks[2].title = tracks_storage[4].title
    /\ last.tracks[3].title = tracks_storage[1].title

\* C15: deleting an id of the catalog removes its entry (so get, list and search
\* no longer show it, and play and download answer not found) and its blob file;
\* deleting an id the catalog does not hold answers false, without an error, and
\* changes nothing.
DeleteRemoves ==
    [][last'.op = "delete"
          => IF Has(tracks_storage, last'.id)
             THEN /\ ~Has(tracks_storage', last'.id)
                  /\ Get(tracks_storage, last'.id).file_path \notin blobs'
             ELSE /\ last'.status < 400
                  /\ UNCHANGED <<tracks_storage, disk, blobs>>]_vars

\* C20: no two catalog entries reference the same blob location, and every blob
\* file an ingestion wrote is referenced by exactly one track: registering a
\* track gives its blob file one entry and takes from no other referenced blob
\* file its entry, also when the external reference or the id has been seen before.
OneTrackPerBlob ==
    [][(th[Bot].pc = "register" /\ th'[Bot].pc = "save")
          => /\ \A b \in blobs' : Cardinality(Referencing(tracks_storage', b)) <= 1
             /\ Cardinality(Referencing(tracks_storage', th[Bot].path)) = 1
             /\ \A b \in blobs :
                   Referencing(tracks_storage, b) # {}
                      => Referencing(tracks_storage', b) # {}]_vars

\* the positions of an upload that has registered its entry
Registered(p) == th[p].pc \in {"save", "dump", "close", "reply"}

\* C21: every upload ends in exactly one outcome, Rejected, Registered or failure:
\* a rejected upload writes no blob file and registers nothing, an entry is
\* registered only when the download of its blob file has returned (the file
\* exists, whole: a file cut short is left only on the way to the except branch),
\* and an upload that has registered its entry ends as Registered, not as failed.
UploadEndsInOneOutcome ==
    [][/\ (last'.op = "upload" /\ last'.body = "TooLarge")
             => UNCHANGED <<tracks_storage, disk, blobs, th>>
       /\ tracks_storage' # tracks_storage /\ up'
             => /\ th[Bot].pc = "register"
                /\ th[Bot].path \in blobs
                /\ Get(tracks_storage', th[Bot].id).file_path = th[Bot].path
       /\ (th[Bot].pc # "idle" /\ th'[Bot].pc = "idle" /\ up')
             => /\ last'.op = "upload"
                /\ last'.body \in {"Registered", "Failed"}
       /\ (Registered(Bot) /\ th'[Bot].pc # th[Bot].pc /\ up')
             => th'[Bot].pc \in {"dump", "close", "reply", "idle"}]_vars

\* C22: when a snapshot write fails, the operation that called it goes on as after
\* a write that succeeded, with its effect on the catalog kept, and the process
\* keeps running; every later mutation calls the write again, the write traverses
\* the whole catalog as it is then, and a write that succeeds leaves the snapshot
\* equal to the catalog, the effects of the operations whose writes failed included.
FailedWriteIsRetried ==
    [][/\ \A p \in Procs :
             /\ (th'[p] # th[p] /\ last'.op = "save" /\ last'.body = "failed")
                   => /\ up'
                      /\ tracks_storage' = tracks_storage
                      /\ th'[p].pc = AfterSave(p)
             /\ (th[p].pc = "dump" /\ th'[p].pc = "close")
                   => th'[p].img = tracks_storage
             /\ (th'[p] # th[p] /\ last'.op = "save" /\ last'.body = "written")
                   => disk' = GoodDisk(tracks_storage')
       /\ (up /\ up' /\ tracks_storage' # tracks_storage)
             => \E p \in Procs : th[p].pc # "save" /\ th'[p].pc = "save"]_vars

\* a write has failed, and a later write has just succeeded on a catalog that
\* holds a track and a play of it
LaterWritePersists ==
    /\ up
    /\ save_errors
    /\ last.op = "save"
    /\ last.body = "written"
    /\ disk = GoodDisk(tracks_storage)
    /\ \E k \in Keys(tracks_storage) : Count(k) > 0

\* the update the queue's task has taken and not yet handed on
InFlight ==
    IF update_processor.pc = "dispatch" THEN <<update_processor.update>> ELSE << >>

\* C23: every update the webhook accepts (answers OK and puts on the queue) is
\* eventually handed to process_update, once and in the order of acceptance, in
\* every mode in which the webhook accepts updates, also after a dispatch that
\* raised and also where no task reads the queue (so no update waits on the queue
\* in a mode whose main() creates no task for it); without a token the webhook
\* answers 400 and puts nothing on the queue.
AcceptedIsDispatched ==
    /\ [](accepted = dispatched \o InFlight \o update_queue)
    /\ [](~BOT_TOKEN => accepted = << >>)
    /\ [](update_queue # << >> => main_pc \notin {"polling", "api-only"})
    /\ [][(last'.op = "webhook" /\ last'.status = 400)
             => UNCHANGED <<update_queue, accepted>>]_vars
    /\ \A u \in 1 .. MaxUpdates : (Len(accepted) >= u) ~> (Len(dispatched) >= u)

\* ---------------------------------------------------------------- the running program
\* The handlers that change the library, or that run across its changes, on the
\* request threads and the bot's thread, with crashes and restarts.
Next ==
    \/ load_tracks
    \/ Crash
    \/ \E b \in blobs : BlobLost(b)
    \/ \E p \in Procs : save_tracks_open(p)
    \/ \E p \in Procs : save_tracks_dump(p)
    \/ \E p \in Procs : save_tracks_dump_end(p)
    \/ \E p \in Procs : save_tracks_except(p)
    \/ \E p \in Procs : save_tracks_close(p)
    \/ \E t \in Threads, k \in IdSpace : play_track(t, k)
    \/ \E t \in Threads : play_track_read(t)
    \/ \E t \in Threads : play_track_write(t)
    \/ \E t \in Threads : generate_audio(t)
    \/ \E t \in Threads : generate_audio_abort(t)
    \/ \E t \in Threads, k \in IdSpace : download_track(t, k)
    \/ \E t \in Threads : get_tracks(t)
    \/ \E t \in Threads : get_tracks_step(t)
    \/ \E t \in Threads : get_tracks_error(t)
    \/ \E t \in Threads : get_tracks_return(t)
    \/ \E d \in DeclaredSizes, a \in ActualSizes, f \in FileIds :
          handle_audio_upload(d, a, f, PlainAudio)
    \/ \E k \in IdSpace : handle_audio_upload_download(k)
    \/ handle_audio_upload_get_file_fails
    \/ \E k \in IdSpace : handle_audio_upload_download_fails(k)
    \/ handle_audio_upload_register
    \/ handle_audio_upload_reply
    \/ handle_audio_upload_reply_fails
    \/ handle_audio_upload_except

Spec == Init /\ [][Next]_vars

\* ---------------------------------------------------------------- one caller
\* The read handlers called one after the other on a catalog loaded from a
\* snapshot: the first MaxTracks tracks of a library, in upload order, each played
\* up to MaxCount times.
LibraryIds == <<"a", "b", "c", "d", "e", "f">>
LibraryTitles ==
    <<<<"S", "o">>, <<"e", "u">>, <<"u", "m">>, <<"s", "o", "-", "l", "o">>,
      <<"A">>, <<"T", "o">>>>
LibraryArtists ==
    <<<<"A", "n">>, <<"S", "a", "m">>, <<"A", "l">>, <<"T", "3">>, <<"e">>, <<"_">>>>

LibraryTrack(i, c) ==
    [NewTrack(LibraryIds[i], LibraryTitles[i], LibraryArtists[i], "f1", 7, 1 + (i % 2), i)
        EXCEPT !.play_count = c]

Catalogs ==
    UNION {{[i \in 1 .. n |-> LibraryTrack(i, c[i])] : c \in [1 .. n -> 0 .. MaxCount]} :
              n \in 0 .. MaxTracks}

\* request.args.get('q', ''): absent or blank, padded and in capitals, with a
\* blank inside, matching nothing
Queries ==
    {<< >>, <<" ", "\t">>, <<" ", "S", "O">>, <<"S", "A", "m", " ">>, <<"a">>,
     <<"o", " ", "s">>, <<"3">>}

Users == {1, 2}

QueryInit ==
    /\ up = TRUE
    /\ tracks_storage \in Catalogs
    /\ disk = GoodDisk(tracks_storage)
    /\ blobs = {tracks_storage[i].file_path : i \in 1 .. Len(tracks_storage)}
    /\ th = [p \in Procs |-> Idle]
    /\ clock = Len(tracks_storage)
    /\ credited = [k \in {LibraryIds[i] : i \in 1 .. Len(LibraryIds)} |->
                     IF Has(tracks_storage, k) THEN Get(tracks_storage, k).play_count
                     ELSE 0]
    /\ seen = [t \in Threads |-> {}]
    /\ last = NoResp
    /\ reqs = 0
    /\ listed = NoRead
    /\ save_errors = FALSE
    /\ WebhookMode

QueryNext ==
    \/ get_tracks(1)
    \/ get_tracks_step(1)
    \/ get_tracks_return(1)
    \/ \E q \in Queries : search_tracks(1, q)
    \/ get_stats(1)
    \/ \E u \in Users : stats_command(u)
    \/ \E k \in Keys(tracks_storage) : download_track(1, k)
    \/ \E k \in Keys(tracks_storage) \cup IdSpace : delete_request(1, k)

SpecQuery == QueryInit /\ [][QueryNext]_vars

\* ---------------------------------------------------------------- ingestion alone
\* The upload handler on its own, on messages with every shape of tags.
IngestNext ==
    \/ load_tracks
    \/ \E d \in DeclaredSizes, f \in IngestFileIds, tags \in AudioTags :
          /\ reqs < MaxIngest
          /\ handle_audio_upload(d, SizeLimit, f, tags)
    \/ \E k \in IdSpace : handle_audio_upload_download(k)
    \/ handle_audio_upload_get_file_fails
    \/ \E k \in IdSpace : handle_audio_upload_download_fails(k)
    \/ handle_audio_upload_register
    \/ save_tracks_open(Bot)
    \/ save_tracks_dump(Bot)
    \/ save_tracks_dump_end(Bot)
    \/ save_tracks_close(Bot)
    \/ handle_audio_upload_reply
    \/ handle_audio_upload_reply_fails
    \/ handle_audio_upload_except

SpecIngest == Init /\ [][IngestNext]_vars

\* ---------------------------------------------------------------- write errors
\* The mutating handlers taken up one after the other (a request starts when no
\* mutation and no upload is under way), with snapshot writes that fail on the
\* file system.
Quiet == \A p \in Procs : ~Mutating(p) /\ th[p].pc \notin {"fetch", "except"}

PersistNext ==
    \/ load_tracks
    \/ \E t \in Threads, k \in IdSpace : Quiet /\ play_track(t, k)
    \/ \E t \in Threads : play_track_read(t)
    \/ \E t \in Threads : play_track_write(t)
    \/ \E t \in Threads : generate_audio(t)
    \/ \E f \in FileIds : Quiet /\ handle_audio_upload(0, SizeLimit, f, PlainAudio)
    \/ \E k \in IdSpace : handle_audio_upload_download(k)
    \/ handle_audio_upload_register
    \/ handle_audio_upload_reply
    \/ \E p \in Procs : save_tracks_open(p)
    \/ \E p \in Procs : save_tracks_open_fails(p)
    \/ \E p \in Procs : save_tracks_dump(p)
    \/ \E p \in Procs : save_tracks_dump_end(p)
    \/ \E p \in Procs : save_tracks_close(p)
    \/ \E p \in Procs : save_tracks_close_fails(p)

SpecPersist == Init /\ [][PersistNext]_vars

\* ---------------------------------------------------------------- the webhook
\* main() from its start under every setting of BOT_TOKEN and WEBHOOK_URL, the
\* webhook on the Flask thread and the queue's task on the event loop. The event
\* loop runs every coroutine that is ready, so main() and the task are not left
\* waiting for ever.
WebhookInit ==
    /\ up = TRUE
    /\ tracks_storage = << >>
    /\ disk = NoDisk
    /\ blobs = {}
    /\ th = [p \in Procs |-> Idle]
    /\ clock = 0
    /\ credited = [k \in IdSpace |-> 0]
    /\ seen = [t \in Threads |-> {}]
    /\ last = NoResp
    /\ reqs = 0
    /\ listed = NoRead
    /\ save_errors = FALSE
    /\ BOT_TOKEN \in BOOLEAN
    /\ WEBHOOK_URL \in BOOLEAN
    /\ telegram_app = FALSE
    /\ main_pc = "start"
    /\ update_queue = << >>
    /\ update_processor = NoTask
    /\ accepted = << >>
    /\ dispatched = << >>

MainStep ==
    \/ main_start
    \/ \E built \in BOOLEAN : setup_telegram_bot(built)
    \/ main_branch

TaskStep ==
    \/ process_telegram_updates_get
    \/ process_update
    \/ process_update_raises
    \/ process_telegram_updates_sleep

WebhookNext ==
    \/ \E has_data \in BOOLEAN : telegram_webhook(has_data)
    \/ MainStep
    \/ TaskStep

SpecWebhook ==
    WebhookInit /\ [][WebhookNext]_vars /\ WF_vars(MainStep) /\ WF_vars(TaskStep)
====
